---- MODULE Spec2Model ----
(***************************************************************************)
(* Model of the CPU-burn controller of src/main.py: the shared burn_level, *)
(* its burn_lock, the background thread cpu_burner and the GET /burn       *)
(* handler, which the web framework runs on a pool of worker threads, so   *)
(* that several calls of burn() are in progress at once.  Calls are        *)
(* numbered in the order their requests arrive.  One action per step a     *)
(* thread can be pre-empted at.                                            *)
(***************************************************************************)
EXTENDS Integers, Sequences, FiniteSets, TLC

(* ---- bounds of the model ---- *)
MaxCalls == 2         \* /burn requests arriving in one behaviour
MidLevel == 2         \* a valid level strictly inside the range

(* ---- program constants ---- *)
LevelMin     == 0     \* Query(..., ge=0)
LevelMax     == 10    \* Query(..., le=10)
DefaultLevel == 0     \* Query(0, ...)
InitialLevel == 0     \* burn_level = 0
SpinUnitMs   == 20    \* 0.02 * lvl
IdleSleepMs  == 200   \* time.sleep(0.2)
BusySleepMs  == 50    \* time.sleep(0.05)

Calls   == 1..MaxCalls          \* the calls of burn(), in order of arrival
Burner  == 0                      \* the cpu_burner thread, as a lock holder
Free    == -1                     \* burn_lock not held

\* levels a client may put in ?level=...: both boundaries, one inside, and
\* the nearest value beyond each boundary
ReqLevels == {LevelMin - 1, LevelMin, MidLevel, LevelMax, LevelMax + 1}
ValidLevels == LevelMin..LevelMax
\* random.random() yields a float in [0,1); modelled in tenths
RandomSamples == {0, 5}
\* the clock read by the busy loop advances in steps of ClockStepMs
ClockStepMs == SpinUnitMs

VARIABLES
  burn_level,    \* the global burn_level
  burn_lock,     \* holder of burn_lock: Free, Burner or a call
  bpc,           \* cpu_burner's position
  lvl,           \* cpu_burner's local lvl
  spin_end,      \* cpu_burner's local end, in ms after it was computed
  spun_ms,       \* ms of busy spin performed in the current iteration
  sleep_ms,      \* duration of the time.sleep cpu_burner is in (0: not asleep)
  CPU_BURN,      \* gauge demo_cpu_burn_level
  RANDOM_GAUGE,  \* gauge demo_random_gauge (tenths)
  pc,            \* position of each call in burn()
  level,         \* the parameter level of each call
  status,        \* outcome of each call: "none" until answered
  resp,          \* burn_level field of the call's 200 response
  logs,          \* records handed to the logger, in order
  calls,         \* number of requests that have arrived
  last_locked,   \* history: level of the call that took the lock last
  last_written,  \* history: level stored by the latest assignment
  interleaved,   \* history: another call wrote since this call's write
  fresh          \* history: cpu_burner read burn_level after the latest write

vars == <<burn_level, burn_lock, bpc, lvl, spin_end, spun_ms, sleep_ms,
          CPU_BURN, RANDOM_GAUGE, pc, level, status, resp, logs, calls,
          last_locked, last_written, interleaved, fresh>>

burnerVars  == <<bpc, lvl, spin_end, spun_ms, sleep_ms, CPU_BURN, RANDOM_GAUGE>>
handlerVars == <<pc, level, status, resp, logs, calls, last_locked,
                 interleaved>>

Init ==
  /\ burn_level = InitialLevel
  /\ burn_lock = Free
  /\ bpc = "acquire"
  /\ lvl = 0
  /\ spin_end = 0
  /\ spun_ms = 0
  /\ sleep_ms = 0
  /\ CPU_BURN = 0
  /\ RANDOM_GAUGE = 0
  /\ pc = [c \in Calls |-> "idle"]
  /\ level = [c \in Calls |-> 0]
  /\ status = [c \in Calls |-> "none"]
  /\ resp = [c \in Calls |-> 0]
  /\ logs = <<>>
  /\ calls = 0
  /\ last_locked = InitialLevel
  /\ last_written = InitialLevel
  /\ interleaved = [c \in Calls |-> FALSE]
  /\ fresh = FALSE

(* ---------------- cpu_burner ---------------- *)

\* variant: a lock that never blocks
LockAlwaysFree == TRUE

\* threading.Lock.acquire: blocks until the lock is free
LockFree == burn_lock = Free

\* with burn_lock:  (entry)
BurnerAcquire ==
  /\ bpc = "acquire"
  /\ LockFree
  /\ burn_lock' = Burner
  /\ bpc' = "read"
  /\ UNCHANGED <<burn_level, lvl, spin_end, spun_ms, sleep_ms, CPU_BURN,
                 RANDOM_GAUGE, last_written, fresh>>
  /\ UNCHANGED handlerVars

\* lvl = burn_level
BurnerRead ==
  /\ bpc = "read"
  /\ lvl' = burn_level
  /\ fresh' = TRUE
  /\ bpc' = "release"
  /\ UNCHANGED <<burn_level, burn_lock, spin_end, spun_ms, sleep_ms, CPU_BURN,
                 RANDOM_GAUGE, last_written>>
  /\ UNCHANGED handlerVars

\* variant: the with block is left only after the sleep, so the lock is
\* still held when the loop goes on to the gauges
BurnerReleaseLate ==
  /\ bpc = "release"
  /\ bpc' = "set_cpu"
  /\ UNCHANGED <<burn_level, burn_lock, lvl, spin_end, spun_ms, sleep_ms,
                 CPU_BURN, RANDOM_GAUGE, last_written, fresh>>
  /\ UNCHANGED handlerVars

\* with burn_lock:  (exit)
BurnerRelease ==
  /\ bpc = "release"
  /\ burn_lock' = Free
  /\ bpc' = "set_cpu"
  /\ UNCHANGED <<burn_level, lvl, spin_end, spun_ms, sleep_ms, CPU_BURN,
                 RANDOM_GAUGE, last_written, fresh>>
  /\ UNCHANGED handlerVars

\* variant: the gauge is set only on the busy path
BurnerSetCpuBusyOnly ==
  /\ bpc = "set_cpu"
  /\ CPU_BURN' = IF lvl <= 0 THEN CPU_BURN ELSE lvl
  /\ bpc' = "set_random"
  /\ UNCHANGED <<burn_level, burn_lock, lvl, spin_end, spun_ms, sleep_ms,
                 RANDOM_GAUGE, last_written, fresh>>
  /\ UNCHANGED handlerVars

\* CPU_BURN.set(lvl)
BurnerSetCpu ==
  /\ bpc = "set_cpu"
  /\ CPU_BURN' = lvl
  /\ bpc' = "set_random"
  /\ UNCHANGED <<burn_level, burn_lock, lvl, spin_end, spun_ms, sleep_ms,
                 RANDOM_GAUGE, last_written, fresh>>
  /\ UNCHANGED handlerVars

\* RANDOM_GAUGE.set(random.random())
BurnerSetRandom ==
  /\ bpc = "set_random"
  /\ \E r \in RandomSamples : RANDOM_GAUGE' = r
  /\ bpc' = "branch"
  /\ UNCHANGED <<burn_level, burn_lock, lvl, spin_end, spun_ms, sleep_ms,
                 CPU_BURN, last_written, fresh>>
  /\ UNCHANGED handlerVars

\* variant: the duration follows the shared burn_level, not the local lvl
SpinDurationShared(l, shared) == SpinUnitMs * shared

\* 0.02 * lvl seconds, in ms
SpinDuration(l, shared) == SpinUnitMs * l

\* if lvl <= 0: ... else: end = time.time() + (0.02 * lvl)
BurnerBranch ==
  /\ bpc = "branch"
  /\ IF lvl <= 0
       THEN /\ bpc' = "sleep_idle"
            /\ sleep_ms' = IdleSleepMs
            /\ UNCHANGED spin_end
       ELSE /\ bpc' = "spin"
            /\ spin_end' = SpinDuration(lvl, burn_level)
            /\ UNCHANGED sleep_ms
  /\ UNCHANGED <<burn_level, burn_lock, lvl, spun_ms, CPU_BURN,
                 RANDOM_GAUGE, last_written, fresh>>
  /\ UNCHANGED handlerVars

\* time.sleep(0.2) returns; continue
BurnerIdleSleep ==
  /\ bpc = "sleep_idle"
  /\ sleep_ms' = 0
  /\ bpc' = "acquire"
  /\ UNCHANGED <<burn_level, burn_lock, lvl, spin_end, spun_ms, CPU_BURN,
                 RANDOM_GAUGE, last_written, fresh>>
  /\ UNCHANGED handlerVars

\* while time.time() < end: pass
BurnerSpin ==
  /\ bpc = "spin"
  /\ IF spun_ms < spin_end
       THEN /\ spun_ms' = spun_ms + ClockStepMs
            /\ bpc' = "spin"
            /\ UNCHANGED sleep_ms
       ELSE /\ bpc' = "sleep_busy"
            /\ sleep_ms' = BusySleepMs
            /\ UNCHANGED spun_ms
  /\ UNCHANGED <<burn_level, burn_lock, lvl, spin_end, CPU_BURN,
                 RANDOM_GAUGE, last_written, fresh>>
  /\ UNCHANGED handlerVars

\* time.sleep(0.05) returns; back to while True
BurnerBusySleep ==
  /\ bpc = "sleep_busy"
  /\ sleep_ms' = 0
  /\ spun_ms' = 0
  /\ spin_end' = 0
  /\ bpc' = "acquire"
  /\ UNCHANGED <<burn_level, burn_lock, lvl, CPU_BURN,
                 RANDOM_GAUGE, last_written, fresh>>
  /\ UNCHANGED handlerVars

BurnerProgress ==
  \/ BurnerRead \/ BurnerRelease \/ BurnerSetCpu \/ BurnerSetRandom
  \/ BurnerBranch \/ BurnerIdleSleep \/ BurnerSpin \/ BurnerBusySleep

(* ---------------- GET /burn ---------------- *)

\* variants: a bound of the parameter left out
LevelAcceptedNoUpper(n) == LevelMin <= n
LevelAcceptedNoLower(n) == n <= LevelMax

\* Query(0, ge=0, le=10)
LevelAccepted(n) == LevelMin <= n /\ n <= LevelMax

\* the request GET /burn?level=n arrives and becomes call c.  The framework
\* validates the parameter before it calls burn(): a value that fails ge/le
\* is answered with a client error and burn() never runs
BurnRequest(c, n) ==
  /\ c = calls + 1
  /\ pc[c] = "idle"
  /\ calls' = c
  /\ level' = [level EXCEPT ![c] = n]
  /\ IF LevelAccepted(n)
       THEN /\ pc' = [pc EXCEPT ![c] = "acquire"]
            /\ UNCHANGED status
       ELSE /\ pc' = [pc EXCEPT ![c] = "done"]
            /\ status' = [status EXCEPT ![c] = "invalid"]
  /\ UNCHANGED <<burn_level, burn_lock, resp, logs, last_locked,
                 last_written, interleaved, fresh>>
  /\ UNCHANGED burnerVars

\* a request GET /burn without the level parameter: Query(0, ...)
BurnRequestDefault(c) == BurnRequest(c, DefaultLevel)

\* with burn_lock:  (entry)
Acquire(c) ==
  /\ pc[c] = "acquire"
  /\ LockFree
  /\ burn_lock' = c
  /\ last_locked' = level[c]
  /\ pc' = [pc EXCEPT ![c] = "write"]
  /\ UNCHANGED <<burn_level, level, status, resp, logs, calls, last_written,
                 interleaved, fresh>>
  /\ UNCHANGED burnerVars

\* variant: the assignment stores the global back into itself
StoredLevelStale(c) == burn_level

\* the value burn() stores
StoredLevel(c) == level[c]

\* burn_level = level
Write(c) ==
  /\ pc[c] = "write"
  /\ burn_level' = StoredLevel(c)
  /\ last_written' = level[c]
  /\ interleaved' = [u \in Calls |->
                       u # c /\ pc[u] \in {"release", "log", "return", "done"}]
  /\ fresh' = FALSE
  /\ pc' = [pc EXCEPT ![c] = "release"]
  /\ UNCHANGED <<burn_lock, level, status, resp, logs, calls, last_locked>>
  /\ UNCHANGED burnerVars

\* with burn_lock:  (exit)
Release(c) ==
  /\ pc[c] = "release"
  /\ burn_lock' = Free
  /\ pc' = [pc EXCEPT ![c] = "log"]
  /\ UNCHANGED <<burn_level, level, status, resp, logs, calls, last_locked,
                 last_written, interleaved, fresh>>
  /\ UNCHANGED burnerVars

\* log(level, msg, **fields): the record built and handed to the logger
LogRecord(severity, msg, endpoint, l) ==
  [severity |-> severity, msg |-> msg, endpoint |-> endpoint, level |-> l]

\* variant: the record carries the global rather than the parameter
LoggedLevelShared(c) == burn_level

\* the level field burn() passes to log()
LoggedLevel(c) == level[c]

\* log("warning", "CPU burn updated", endpoint="/burn", level=level)
Log(c) ==
  /\ pc[c] = "log"
  /\ logs' = Append(logs, LogRecord("warning", "CPU burn updated", "/burn",
                                    LoggedLevel(c)))
  /\ pc' = [pc EXCEPT ![c] = "return"]
  /\ UNCHANGED <<burn_level, burn_lock, level, status, resp, calls,
                 last_locked, last_written, interleaved, fresh>>
  /\ UNCHANGED burnerVars

\* return {"burn_level": burn_level}   (the global, read without the lock)
Return(c) ==
  /\ pc[c] = "return"
  /\ resp' = [resp EXCEPT ![c] = burn_level]
  /\ status' = [status EXCEPT ![c] = "ok"]
  /\ pc' = [pc EXCEPT ![c] = "done"]
  /\ UNCHANGED <<burn_level, burn_lock, level, logs, calls, last_locked,
                 last_written, interleaved, fresh>>
  /\ UNCHANGED burnerVars

HandlerProgress(c) ==
  Write(c) \/ Release(c) \/ Log(c) \/ Return(c)

(* ---------------- specifications ---------------- *)

Next ==
  \/ BurnerAcquire
  \/ BurnerRead
  \/ BurnerRelease
  \/ BurnerSetCpu
  \/ BurnerSetRandom
  \/ BurnerBranch
  \/ BurnerIdleSleep
  \/ BurnerSpin
  \/ BurnerBusySleep
  \/ \E c \in Calls : \E n \in ReqLevels : BurnRequest(c, n)
  \/ \E c \in Calls : BurnRequestDefault(c)
  \/ \E c \in Calls : Acquire(c)
  \/ \E c \in Calls : Write(c)
  \/ \E c \in Calls : Release(c)
  \/ \E c \in Calls : Log(c)
  \/ \E c \in Calls : Return(c)

Spec == Init /\ [][Next]_vars

(* The code's scheduling: every thread that can run eventually does, the   *)
(* loop frees burn_lock for at least 50 ms in each iteration and a thread   *)
(* blocked in acquire is woken when the lock is released.  No request is    *)
(* ever obliged to arrive.                                                  *)
Fairness ==
  /\ WF_vars(BurnerProgress)
  /\ SF_vars(BurnerAcquire)
  /\ \A c \in Calls : WF_vars(HandlerProgress(c)) /\ SF_vars(Acquire(c))

FairSpec == Spec /\ Fairness

\* A step of cpu_burner raises.  cpu_burner has no try/except: the exception
\* leaves the with block (which releases the lock), leaves the function, and
\* the thread ends; nothing is handed to log().
BurnerFault ==
  /\ bpc # "dead"
  /\ bpc' = "dead"
  /\ burn_lock' = IF burn_lock = Burner THEN Free ELSE burn_lock
  /\ UNCHANGED <<burn_level, lvl, spin_end, spun_ms, sleep_ms, CPU_BURN,
                 RANDOM_GAUGE, last_written, fresh>>
  /\ UNCHANGED handlerVars

NextFault == Next \/ BurnerFault

FaultSpec == Init /\ [][NextFault]_vars

TypeOK ==
  /\ burn_level \in Int
  /\ burn_lock \in {Free, Burner} \cup Calls
  /\ bpc \in {"acquire", "read", "release", "set_cpu", "set_random", "branch",
              "sleep_idle", "spin", "sleep_busy", "dead"}
  /\ pc \in [Calls -> {"idle", "acquire", "write", "release",
                       "log", "return", "done"}]
  /\ status \in [Calls -> {"none", "ok", "invalid"}]
  /\ calls \in 0..MaxCalls
  /\ Len(logs) <= MaxCalls

\* every request that has arrived has been answered
AllDone == \A c \in Calls : pc[c] \in {"idle", "done"}

\* number of requests answered 200
completed == Cardinality({c \in Calls : status[c] = "ok"})

\* levels of the requests that passed validation
submitted == {level[c] : c \in {d \in 1..calls : LevelAccepted(level[d])}}

(* ---------------- properties ---------------- *)

\* C1: burn_level is always an integer in [0,10]; it is 0 until a request
\* is accepted, it is always the initial value or a level some accepted
\* request asked for, and only requests with a level in [0,10] are accepted
\* or ever inside burn().
C1_LevelInRange ==
  /\ burn_level \in 0..10
  /\ submitted = {} => burn_level = 0
  /\ burn_level \in submitted \cup {0}
  /\ submitted \subseteq 0..10
  /\ \A c \in Calls : pc[c] \notin {"idle", "done"} => level[c] \in 0..10

C1_Witness ==
  \E c \in Calls :
    /\ status[c] = "invalid"
    /\ level[c] = 11
    /\ burn_level = LevelMax
    /\ fresh

C4_Rejection ==
  /\ [](\A c \in Calls :
          (c <= calls /\ level[c] \notin 0..10)
            => status[c] = "invalid" /\ pc[c] = "done")
  /\ [][ \A c \in Calls :
           (calls' = c /\ calls # c /\ level'[c] \notin 0..10)
           => /\ status'[c] = "invalid"
              /\ pc'[c] = "done"
              /\ burn_level' = burn_level
              /\ logs' = logs
              /\ burn_lock' = burn_lock
              /\ burnerVars' = burnerVars ]_vars

C4_Witness ==
  \E c \in Calls :
    /\ status[c] = "invalid"
    /\ level[c] = -1
    /\ burn_level = MidLevel
    /\ Len(logs) = 1
    /\ bpc = "spin"

\* C5: when every call has completed, burn_level is one of the submitted
\* levels, and it is the level of the call that took the lock last.
C5_LastWriterWins ==
  (AllDone /\ submitted # {}) =>
     /\ burn_level \in submitted
     /\ burn_level = last_locked

C5_Witness ==
  /\ AllDone
  /\ Cardinality(submitted) >= 2
  /\ completed >= 2
  /\ \A c \in Calls : status[c] = "ok"
  /\ burn_level = last_locked

C7_LoopAlwaysRunning == bpc # "dead"

\* C8: the loop holds burn_lock only around its read, a handler only around
\* its assignment; so the lock is never the loop's while it sets gauges,
\* spins or sleeps, and every handler waiting for the lock gets it.
C8_LockNotHeldWhileSpinning ==
  /\ [](bpc \notin {"read", "release"} => burn_lock # Burner)
  /\ [](\A c \in Calls : pc[c] \notin {"write", "release"} => burn_lock # c)
  /\ \A c \in Calls : (pc[c] = "acquire") ~> (pc[c] = "write")

C8_Witness ==
  \E c \in Calls :
    /\ bpc = "spin"
    /\ spun_ms > 0
    /\ spun_ms < spin_end
    /\ pc[c] = "write"
    /\ burn_lock = c

\* C9: an iteration that read 0 does not spin and sleeps 200 ms; one that
\* read lvl > 0 spins until 20 ms x lvl (at most 200 ms) have passed and then
\* sleeps 50 ms, whatever burn_level has become meanwhile.
C9_SpinDuration ==
  /\ bpc = "spin" =>
       /\ lvl > 0
       /\ spin_end = 20 * lvl
       /\ spin_end <= 200
       /\ spun_ms <= spin_end
       /\ sleep_ms = 0
  /\ bpc = "sleep_busy" =>
       /\ lvl > 0
       /\ spun_ms = 20 * lvl
       /\ sleep_ms = 50
  /\ bpc = "sleep_idle" =>
       /\ lvl = 0
       /\ spun_ms = 0
       /\ sleep_ms = 200

C9_Witness ==
  /\ bpc = "sleep_busy"
  /\ lvl = LevelMax
  /\ spun_ms = 200
  /\ burn_level # lvl
  /\ completed >= 2

\* C10: the gauge is set to the level read in every iteration; once the loop
\* has read after the latest assignment and set the gauge, the gauge equals
\* burn_level; and if burn_level stays n for ever, the gauge eventually is n
\* for ever.
C10_GaugeFollowsLevel ==
  /\ [][ (bpc = "set_cpu" /\ bpc' # bpc) => CPU_BURN' = lvl ]_vars
  /\ [](fresh /\ bpc \notin {"release", "set_cpu"} => CPU_BURN = burn_level)
  /\ \A n \in ReqLevels \cap ValidLevels :
       <>[](burn_level = n) => <>[](CPU_BURN = n)

C10_Witness ==
  /\ fresh
  /\ bpc = "sleep_idle"
  /\ burn_level = 0
  /\ CPU_BURN = 0
  /\ Len(logs) >= 2
  /\ logs[1].level = LevelMax
  /\ AllDone

====
